---- MODULE Spec2Model ----
(***************************************************************************)
(* Model of the patient Health Insights page                               *)
(* (frontend/src/pages/patient/HealthInsights.tsx) and of the zustand      *)
(* store it keeps its session in (store/useHealthInsightsStore).           *)
(*                                                                         *)
(* JavaScript values are tagged records, so that null, undefined, numbers, *)
(* strings and arrays stay distinct and the loose tests of the code        *)
(* (`x != null`, `!x`, `a || b`) are computed the way JavaScript computes  *)
(* them.                                                                   *)
(***************************************************************************)
EXTENDS Integers, Sequences, FiniteSets, TLC

VARIABLES
    data,        \* store: HealthData | null
    loading,     \* store: boolean
    error,       \* store: string | null
    hasLoaded,   \* store: boolean
    patientId,   \* component state: string | null
    inflight,    \* calls of generateInsights suspended at `await fetch(...)`
    issued,      \* number of fetches issued so far (the next fetch is issued + 1)
    lastEvent,   \* the handler that ran last, with its input
    raw,         \* NormSpec: the payload handed to the filter-and-sort step
    series,      \* NormSpec: the series the step produced
    pass,        \* NormSpec: how many times the step was applied
    mounted,     \* whether the HealthInsights view is mounted
    isDownloading, \* component state: boolean
    exports,     \* calls of downloadPDF of the mounted view suspended at an await
    user,        \* useAuth: the signed-in user
    dataFor,     \* history: the patientId of the fetch that data came from
    chartKeys,   \* ChartSpec: the available_metrics handed to the chart
    areas,       \* ChartSpec: the series the chart draws for them
    renders      \* ChartSpec: how many times the chart was rendered

vars == <<data, loading, error, hasLoaded, patientId, inflight, issued,
          lastEvent, raw, series, pass, mounted, isDownloading, exports,
          user, dataFor, chartKeys, areas, renders>>

storeVars == <<data, loading, error, hasLoaded>>
normVars == <<raw, series, pass>>
chartVars == <<chartKeys, areas, renders>>
viewVars == <<mounted, isDownloading, exports>>
historyVars == <<user, dataFor>>
sessionVars == <<data, loading, error, hasLoaded, patientId, inflight, issued, lastEvent,
                 viewVars, historyVars>>

----------------------------------------------------------------------------
(* Bounds *)

MaxLen == 3        \* longest raw metrics sequence under NormSpec
MaxMetrics == 1    \* longest raw metrics sequence an endpoint response carries
MaxIssued == 2     \* fetches issued in one behaviour
MaxExports == 1    \* calls of downloadPDF suspended at a time
MaxKeys == 8       \* longest available_metrics under ChartSpec
MaxRenders == 3    \* renders of the chart under ChartSpec

----------------------------------------------------------------------------
(* JavaScript values *)

Null == [t |-> "null"]
Undefined == [t |-> "undefined"]
Num(n) == [t |-> "number", v |-> n]
Str(s) == [t |-> "string", v |-> s]
Arr(s) == [t |-> "array", v |-> s]

\* ToBoolean: null, undefined, 0 and "" are falsy, an array or object is truthy
Truthy(x) ==
    CASE x.t = "null" -> FALSE
      [] x.t = "undefined" -> FALSE
      [] x.t = "number" -> x.v # 0
      [] x.t = "string" -> x.v # ""
      [] OTHER -> TRUE

\* a || b
OrElse(a, b) == IF Truthy(a) THEN a ELSE b

\* x != null (loose): false for null and for undefined only
NotNullish(x) == x.t \notin {"null", "undefined"}

\* m[key]: an absent field reads as undefined
Field(m, key) == IF key \in DOMAIN m THEN m[key] ELSE Undefined

----------------------------------------------------------------------------
(* The filter-and-sort step of generateInsights *)

\* new Date(text).getTime() of a date-only ISO text (read as UTC midnight), in
\* days since the epoch: the code compares milliseconds, 86400000 to the day
getTime(date) ==
    CASE date.v = "2024-01-01" -> 19723
      [] date.v = "2024-02-01" -> 19754

\* the comparator handed to sort
compareDate(a, b) == getTime(a.date) - getTime(b.date)

\* keepMetric of a filter that drops nothing
keepAll(m, available_metrics) == TRUE

\* keepMetric with `every` in place of `some`
keepMetricEvery(m, available_metrics) ==
    IF ~Truthy(available_metrics) \/ Len(available_metrics.v) = 0
    THEN TRUE
    ELSE \A i \in 1..Len(available_metrics.v) :
            NotNullish(Field(m, available_metrics.v[i]))

\* keepMetric that, without keys, keeps the records with a value for some
\* well-known metric, as the filter of HealthInsightsCard does
keepMetricFixed(m, available_metrics) ==
    IF ~Truthy(available_metrics) \/ Len(available_metrics.v) = 0
    THEN NotNullish(Field(m, "hr")) \/ NotNullish(Field(m, "bp"))
    ELSE \E i \in 1..Len(available_metrics.v) :
            NotNullish(Field(m, available_metrics.v[i]))

\* the predicate handed to filter
keepMetric(m, available_metrics) ==
    IF ~Truthy(available_metrics) \/ Len(available_metrics.v) = 0
    THEN TRUE
    ELSE \E i \in 1..Len(available_metrics.v) :
            NotNullish(Field(m, available_metrics.v[i]))

RECURSIVE filter(_, _)
filter(metrics, available_metrics) ==
    IF metrics = <<>> THEN <<>>
    ELSE LET rest == filter(Tail(metrics), available_metrics)
         IN  IF keepMetric(Head(metrics), available_metrics)
             THEN <<Head(metrics)>> \o rest
             ELSE rest

\* insert that puts x in front of the elements it compares equal to
RECURSIVE insertBeforeEqual(_, _)
insertBeforeEqual(sorted, x) ==
    IF sorted = <<>> THEN <<x>>
    ELSE IF compareDate(sorted[Len(sorted)], x) >= 0
         THEN Append(insertBeforeEqual(SubSeq(sorted, 1, Len(sorted) - 1), x),
                     sorted[Len(sorted)])
         ELSE Append(sorted, x)

\* one step of a stable insertion: x goes behind every element that does not
\* compare greater than it
RECURSIVE insert(_, _)
insert(sorted, x) ==
    IF sorted = <<>> THEN <<x>>
    ELSE IF compareDate(sorted[Len(sorted)], x) > 0
         THEN Append(insert(SubSeq(sorted, 1, Len(sorted) - 1), x), sorted[Len(sorted)])
         ELSE Append(sorted, x)

\* Array.prototype.sort with compareDate: stable (ECMAScript 2019)
RECURSIVE sort(_)
sort(metrics) ==
    IF metrics = <<>> THEN <<>>
    ELSE insert(sort(SubSeq(metrics, 1, Len(metrics) - 1)), metrics[Len(metrics)])

validMetrics(payload) == sort(filter(payload.metrics, payload.available_metrics))

\* { ...result.data, metrics: validMetrics }
storedData(payload) == [payload EXCEPT !.metrics = validMetrics(payload)]

----------------------------------------------------------------------------
(* Inputs *)

MetricKeys == {"hr", "bp"}
DateTexts == {"2024-01-01", "2024-02-01"}
MetricValues == {Undefined, Null, Num(0)}

\* MetricData: a date and, for every key, a reading, an explicit null or nothing
MetricRecords ==
    {[date |-> Str(d), hr |-> h, bp |-> b] :
        d \in DateTexts, h \in MetricValues, b \in MetricValues}

SeqsUpTo(S, n) == UNION {[1..k -> S] : k \in 0..n}

\* available_metrics?: string[]
AvailableMetrics ==
    {Undefined} \cup
    {Arr(ks) : ks \in {s \in SeqsUpTo(MetricKeys, Cardinality(MetricKeys)) :
                          \A i, j \in 1..Len(s) : i # j => s[i] # s[j]}}

HealthData(am, ms) == [t |-> "object", available_metrics |-> am, metrics |-> ms]

\* payloads the endpoint returns in the session: records of one metric, a
\* reading or an explicit null (a record without the field goes through the
\* filter-and-sort step in NormSpec)
SessionRecords == {m \in MetricRecords : m.bp = Undefined /\ m.hr # Undefined}

SessionPayloads ==
    {HealthData(am, ms) :
        am \in {Undefined, Arr(<<>>), Arr(<<"hr">>)},
        ms \in SeqsUpTo(SessionRecords, MaxMetrics)}

PatientIds == {"p1", "p2"}

\* the patients row of each user: `.eq("user_id", user.id).maybeSingle()`
Users == {"u1", "u2"}
PatientOf == [u \in Users |-> IF u = "u1" THEN "p1" ELSE "p2"]

\* what `await fetch(...)` and `await response.json()` can hand back
Responses ==
    {[kind |-> "rejected", message |-> m] : m \in {Str("Failed to fetch"), Str("")}}
    \cup {[kind |-> "notOk"]}
    \cup {[kind |-> "failure", detail |-> d] : d \in {Undefined, Str(""), Str("X")}}
    \cup {[kind |-> "success", data |-> p] : p \in SessionPayloads}

----------------------------------------------------------------------------
(* The session: store, component state and suspended calls *)

Init ==
    /\ data = Null
    /\ loading = FALSE
    /\ error = Null
    /\ hasLoaded = FALSE
    /\ patientId = Null
    /\ inflight = {}
    /\ issued = 0
    /\ lastEvent = [op |-> "init"]
    /\ raw = Null
    /\ series = <<>>
    /\ pass = 0
    /\ mounted = FALSE
    /\ isDownloading = FALSE
    /\ exports = 0
    /\ user = "u1"
    /\ dataFor = Null
    /\ chartKeys = <<>>
    /\ areas = <<>>
    /\ renders = 0

\* the route renders the view: useState gives patientId and isDownloading
\* their initial values, the store is the one created at start-up
mount ==
    /\ ~mounted
    /\ mounted' = TRUE
    /\ patientId' = Null
    /\ isDownloading' = FALSE
    /\ exports' = 0
    /\ UNCHANGED <<storeVars, inflight, issued, lastEvent, historyVars, normVars, chartVars>>

\* unmount that also puts the store back to its initial state
unmountResets ==
    /\ mounted
    /\ mounted' = FALSE
    /\ patientId' = Null
    /\ isDownloading' = FALSE
    /\ exports' = 0
    /\ data' = Null
    /\ loading' = FALSE
    /\ error' = Null
    /\ hasLoaded' = FALSE
    /\ UNCHANGED <<inflight, issued, lastEvent, historyVars, normVars, chartVars>>

\* the view goes away: its component state is discarded, and so is whatever
\* its suspended downloadPDF calls would still set; the component registers no
\* cleanup, so the store and the fetches in flight stay as they are
unmount ==
    /\ mounted
    /\ mounted' = FALSE
    /\ patientId' = Null
    /\ isDownloading' = FALSE
    /\ exports' = 0
    /\ UNCHANGED <<storeVars, inflight, issued, lastEvent, historyVars, normVars, chartVars>>

\* the effect on [user]: the lookup found a patient row
fetchPatient(id) ==
    /\ mounted
    /\ patientId' = Str(id)
    /\ lastEvent' = [op |-> "fetchPatient", id |-> id]
    /\ UNCHANGED <<storeVars, inflight, issued, normVars,
                   viewVars, historyVars, chartVars>>

\* generateInsights that also returns early while a load is under way
generateInsightsGuarded ==
    /\ mounted
    /\ IF ~Truthy(patientId) \/ loading
       THEN /\ lastEvent' = [op |-> "generateInsights", token |-> 0]
            /\ UNCHANGED <<storeVars, patientId, inflight, issued, normVars,
                           viewVars, historyVars, chartVars>>
       ELSE /\ issued < MaxIssued
            /\ loading' = TRUE
            /\ error' = Null
            /\ issued' = issued + 1
            /\ inflight' = inflight \cup {[token |-> issued + 1, patientId |-> patientId.v]}
            /\ lastEvent' = [op |-> "generateInsights", token |-> issued + 1]
            /\ UNCHANGED <<data, hasLoaded, patientId, normVars,
                           viewVars, historyVars, chartVars>>

\* generateInsights without its `setError(null)`
generateInsightsKeepsError ==
    /\ mounted
    /\ IF ~Truthy(patientId)
       THEN /\ lastEvent' = [op |-> "generateInsights", token |-> 0]
            /\ UNCHANGED <<storeVars, patientId, inflight, issued, normVars,
                           viewVars, historyVars, chartVars>>
       ELSE /\ issued < MaxIssued
            /\ loading' = TRUE
            /\ issued' = issued + 1
            /\ inflight' = inflight \cup {[token |-> issued + 1, patientId |-> patientId.v]}
            /\ lastEvent' = [op |-> "generateInsights", token |-> issued + 1]
            /\ UNCHANGED <<data, hasLoaded, error, patientId, normVars,
                           viewVars, historyVars, chartVars>>

\* generateInsights up to `await fetch(...)`
generateInsights ==
    /\ mounted
    /\ IF ~Truthy(patientId)
       THEN /\ lastEvent' = [op |-> "generateInsights", token |-> 0]
            /\ UNCHANGED <<storeVars, patientId, inflight, issued, normVars,
                           viewVars, historyVars, chartVars>>
       ELSE /\ issued < MaxIssued
            /\ loading' = TRUE
            /\ error' = Null
            /\ issued' = issued + 1
            /\ inflight' = inflight \cup {[token |-> issued + 1, patientId |-> patientId.v]}
            /\ lastEvent' = [op |-> "generateInsights", token |-> issued + 1]
            /\ UNCHANGED <<data, hasLoaded, patientId, normVars,
                           viewVars, historyVars, chartVars>>

\* thrown that ignores the detail of the payload
thrownWithoutDetail(response) ==
    CASE response.kind = "rejected" -> response.message
      [] response.kind = "notOk" -> Str("Failed to fetch health insights")
      [] response.kind = "failure" -> Str("Unknown error")
      [] OTHER -> Undefined

\* thrown that also throws when no record is left to chart
thrownOnEmptySeries(response) ==
    CASE response.kind = "rejected" -> response.message
      [] response.kind = "notOk" -> Str("Failed to fetch health insights")
      [] response.kind = "failure" -> OrElse(response.detail, Str("Unknown error"))
      [] response.kind = "success" /\ validMetrics(response.data) = <<>> ->
            Str("No metrics")
      [] OTHER -> Undefined

\* the Error the try block throws on this response, or undefined when it
\* runs to its end: a rejected fetch (or unreadable body), `!response.ok`,
\* `!result.success`
thrown(response) ==
    CASE response.kind = "rejected" -> response.message
      [] response.kind = "notOk" -> Str("Failed to fetch health insights")
      [] response.kind = "failure" -> OrElse(response.detail, Str("Unknown error"))
      [] OTHER -> Undefined

\* dataAfter of a catch block that also drops the data
dataAfterCatchResets(response) ==
    IF thrown(response) = Undefined THEN storedData(response.data) ELSE Null

\* data once the call has run: setData is the last but one statement of try
dataAfter(response) ==
    IF thrown(response) = Undefined THEN storedData(response.data) ELSE data

\* hasLoadedAfter of a call that sets the flag in `finally`
hasLoadedAfterFinally(response) == TRUE

\* hasLoaded once the call has run: setHasLoaded(true) is the last statement of try
hasLoadedAfter(response) ==
    IF thrown(response) = Undefined THEN TRUE ELSE hasLoaded

\* error once the call has run: only the catch block sets it
errorAfter(response) ==
    IF thrown(response) = Undefined
    THEN error
    ELSE OrElse(thrown(response), Str("Could not load health insights."))

\* generateInsightsSettled that drops the response of every fetch but the one
\* issued last
generateInsightsSettledLatestOnly(call, response) ==
    /\ call \in inflight
    /\ inflight' = inflight \ {call}
    /\ data' = IF call.token = issued THEN dataAfter(response) ELSE data
    /\ hasLoaded' = IF call.token = issued THEN hasLoadedAfter(response) ELSE hasLoaded
    /\ error' = IF call.token = issued THEN errorAfter(response) ELSE error
    /\ loading' = IF call.token = issued THEN FALSE ELSE loading
    /\ lastEvent' = [op |-> "settled", token |-> call.token, response |-> response,
                     mounted |-> mounted]
    /\ dataFor' = IF thrown(response) = Undefined /\ call.token = issued
                  THEN Str(call.patientId) ELSE dataFor
    /\ UNCHANGED <<patientId, issued, normVars, viewVars, user, chartVars>>

\* generateInsights from the resolution of the fetch to the end of `finally`
generateInsightsSettled(call, response) ==
    /\ call \in inflight
    /\ inflight' = inflight \ {call}
    /\ data' = dataAfter(response)
    /\ hasLoaded' = hasLoadedAfter(response)
    /\ error' = errorAfter(response)
    /\ loading' = FALSE
    /\ lastEvent' = [op |-> "settled", token |-> call.token, response |-> response,
                     mounted |-> mounted]
    /\ dataFor' = IF thrown(response) = Undefined THEN Str(call.patientId) ELSE dataFor
    /\ UNCHANGED <<patientId, issued, normVars, viewVars, user, chartVars>>

\* the panels the view renders: the five conditional blocks of the JSX
Panels ==
    IF ~mounted THEN {}
    ELSE {p \in {"cta", "loading", "error", "empty", "ready"} :
            CASE p = "cta" -> ~hasLoaded /\ ~loading /\ ~Truthy(error)
              [] p = "loading" -> loading
              [] p = "error" -> Truthy(error)
              [] p = "empty" -> /\ hasLoaded /\ ~loading /\ ~Truthy(error)
                                /\ Truthy(data) /\ Len(data.metrics) = 0
              [] p = "ready" -> /\ hasLoaded /\ ~loading /\ ~Truthy(error)
                                /\ Truthy(data) /\ Len(data.metrics) > 0}

\* reportRef.current: the element of the ready panel, when that panel is rendered
reportRef ==
    IF /\ mounted /\ hasLoaded /\ ~loading /\ ~Truthy(error)
       /\ Truthy(data) /\ Len(data.metrics) > 0
    THEN [t |-> "object"]
    ELSE Null

\* downloadPDF up to `await html2canvas(...)`
downloadPDF ==
    /\ mounted
    /\ IF ~Truthy(reportRef)
       THEN /\ lastEvent' = [op |-> "downloadPDF", started |-> FALSE]
            /\ UNCHANGED <<isDownloading, exports>>
       ELSE /\ exports < MaxExports
            /\ isDownloading' = TRUE
            /\ exports' = exports + 1
            /\ lastEvent' = [op |-> "downloadPDF", started |-> TRUE]
    /\ UNCHANGED <<storeVars, patientId, inflight, issued, mounted, historyVars,
                   normVars, chartVars>>

\* isDownloadingAfter of a call that clears the flag at the end of try
isDownloadingAfterTry(ok) == IF ok THEN FALSE ELSE isDownloading

\* isDownloading once the call has run: `finally` clears it on both paths
isDownloadingAfter(ok) == FALSE

\* downloadPDF from the capture to the end of `finally`: the document is
\* saved, or the failure is caught and reported with alert
downloadPDFSettled(ok) ==
    /\ exports > 0
    /\ exports' = exports - 1
    /\ isDownloading' = isDownloadingAfter(ok)
    /\ lastEvent' = [op |-> "downloadPDFSettled", ok |-> ok]
    /\ UNCHANGED <<storeVars, patientId, inflight, issued, mounted, historyVars,
                   normVars, chartVars>>

\* a suspended export ends, well or badly
exportSettles == \E ok \in BOOLEAN : downloadPDFSettled(ok)

\* some suspended call resumes with what the network handed back
settle ==
    \E call \in inflight : \E response \in Responses :
        generateInsightsSettled(call, response)

\* the lookup of the effect resolves the patient of the signed-in user
resolvePatient == fetchPatient(PatientOf[user])

\* another user signs in, in the same client session: the effect on [user]
\* will run its lookup again
signIn ==
    /\ \E u \in Users \ {user} : user' = u
    /\ UNCHANGED <<storeVars, patientId, inflight, issued, lastEvent, viewVars,
                   dataFor, normVars, chartVars>>

\* one user for the whole session, no export
Next ==
    \/ mount
    \/ unmount
    \/ resolvePatient
    \/ generateInsights
    \/ settle

Spec == Init /\ [][Next]_vars

\* the session with the PDF export
ExportNext ==
    \/ Next
    \/ downloadPDF
    \/ exportSettles

ExportSpec == Init /\ [][ExportNext]_vars

\* the session with a change of user
IdentityNext ==
    \/ Next
    \/ signIn

IdentitySpec == Init /\ [][IdentityNext]_vars

----------------------------------------------------------------------------
(* The filter-and-sort step on its own *)

NormInit ==
    /\ data = Null
    /\ loading = FALSE
    /\ error = Null
    /\ hasLoaded = FALSE
    /\ patientId = Null
    /\ inflight = {}
    /\ issued = 0
    /\ lastEvent = [op |-> "init"]
    /\ \E am \in AvailableMetrics, len \in 0..MaxLen :
          \E ms \in [1..len -> MetricRecords] : raw = HealthData(am, ms)
    /\ series = <<>>
    /\ pass = 0
    /\ mounted = FALSE
    /\ isDownloading = FALSE
    /\ exports = 0
    /\ user = "u1"
    /\ dataFor = Null
    /\ chartKeys = <<>>
    /\ areas = <<>>
    /\ renders = 0

\* the step applied to the payload
normalize ==
    /\ pass = 0
    /\ series' = validMetrics(raw)
    /\ pass' = 1
    /\ UNCHANGED <<sessionVars, raw, chartVars>>

\* the step applied to the payload with its metrics replaced by the series
renormalize ==
    /\ pass = 1
    /\ series' = validMetrics([raw EXCEPT !.metrics = series])
    /\ pass' = 2
    /\ UNCHANGED <<sessionVars, raw, chartVars>>

NormNext == normalize \/ renormalize

NormSpec == NormInit /\ [][NormNext]_vars

----------------------------------------------------------------------------
(* The chart of the ready panel *)

DYNAMIC_COLORS ==
    <<"#ef4444", "#3b82f6", "#10b981", "#f59e0b", "#8b5cf6", "#ec4899", "#14b8a6">>

\* colorAt that gives every index past the palette its last color
colorAtClamped(idx) ==
    IF idx < Len(DYNAMIC_COLORS) THEN DYNAMIC_COLORS[idx + 1]
    ELSE DYNAMIC_COLORS[Len(DYNAMIC_COLORS)]

\* DYNAMIC_COLORS[idx % DYNAMIC_COLORS.length], idx counted from 0
colorAt(idx) == DYNAMIC_COLORS[(idx % Len(DYNAMIC_COLORS)) + 1]

\* the <Area> of the metric at index idx
Area(metric, idx) ==
    [dataKey |-> metric, stroke |-> colorAt(idx), connectNulls |-> TRUE]

\* `data.available_metrics && data.available_metrics.map(...)`: the <Area>
\* children of the chart; a falsy left operand renders nothing
Areas(available_metrics) ==
    IF Truthy(available_metrics)
    THEN [i \in 1..Len(available_metrics.v) |-> Area(available_metrics.v[i], i - 1)]
    ELSE <<>>

\* the <Area> children of the chart of HealthInsightsCard: the same two,
\* whatever the payload says, neither with connectNulls
CardAreas ==
    <<[dataKey |-> "systolic_bp", stroke |-> "#ef4444"],
      [dataKey |-> "heart_rate", stroke |-> "#3b82f6"]>>

\* the names of n distinct metrics
MetricNames(n) == [i \in 1..n |-> ToString(i)]

ChartInit ==
    /\ data = Null
    /\ loading = FALSE
    /\ error = Null
    /\ hasLoaded = FALSE
    /\ patientId = Null
    /\ inflight = {}
    /\ issued = 0
    /\ lastEvent = [op |-> "init"]
    /\ raw = Null
    /\ series = <<>>
    /\ pass = 0
    /\ mounted = FALSE
    /\ isDownloading = FALSE
    /\ exports = 0
    /\ user = "u1"
    /\ dataFor = Null
    /\ \E n \in 0..MaxKeys : chartKeys = MetricNames(n)
    /\ areas = Areas(Arr(chartKeys))
    /\ renders = 1

\* the same metrics arrive with two of them exchanged, and the chart is
\* rendered again
reorder ==
    /\ renders < MaxRenders
    /\ renders' = renders + 1
    /\ \E i, j \in 1..Len(chartKeys) :
          /\ i < j
          /\ chartKeys' = [chartKeys EXCEPT ![i] = chartKeys[j], ![j] = chartKeys[i]]
    /\ areas' = Areas(Arr(chartKeys'))
    /\ UNCHANGED <<sessionVars, normVars>>

ChartNext == reorder

ChartSpec == ChartInit /\ [][ChartNext]_vars

----------------------------------------------------------------------------
(* Properties of the filter-and-sort step (checked under NormSpec) *)

Range(s) == {s[i] : i \in 1..Len(s)}
Count(s, x) == Cardinality({i \in 1..Len(s) : s[i] = x})

\* the keys among `keys` for which record m carries a value: present and not null
Readings(m, keys) == {k \in keys : k \in DOMAIN m /\ m[k] # Null /\ m[k] # Undefined}

HasKeys(payload) ==
    /\ payload.available_metrics.t = "array"
    /\ payload.available_metrics.v # <<>>

\* C1: when available_metrics is non-empty, a raw record is in the stored
\* series (as often as in the raw metrics) if and only if it has a value that is
\* neither null nor absent for at least one key of available_metrics; so every
\* stored record has such a value.
C1_FilterKeepsRecordsWithReading ==
    (pass = 1 /\ HasKeys(raw)) =>
        LET keys == Range(raw.available_metrics.v)
        IN  /\ \A m \in Range(raw.metrics) :
                  Count(series, m) = IF Readings(m, keys) # {}
                                     THEN Count(raw.metrics, m) ELSE 0
            /\ \A i \in 1..Len(series) : Readings(series[i], keys) # {}

\* a payload of two keys in which one record with a single reading is kept and
\* one record without any is dropped
C1_Witness ==
    /\ pass = 1
    /\ HasKeys(raw)
    /\ Len(raw.available_metrics.v) = 2
    /\ \E i \in 1..Len(raw.metrics) :
          /\ Cardinality(Readings(raw.metrics[i], MetricKeys)) = 1
          /\ raw.metrics[i] \in Range(series)
    /\ \E i \in 1..Len(raw.metrics) : raw.metrics[i] \notin Range(series)

\* C2: the stored series is in ascending order of parsed date, and the stored
\* records of one date stand in the order they have in the raw metrics.
C2_SortedAscendingAndStable ==
    pass = 1 =>
        /\ \A i, j \in 1..Len(series) :
              i < j => getTime(series[i].date) <= getTime(series[j].date)
        /\ \A d \in DateTexts :
              SelectSeq(series, LAMBDA m : m.date = Str(d))
                = SelectSeq(raw.metrics,
                            LAMBDA m : m.date = Str(d) /\ m \in Range(series))

\* a later record came first in the raw metrics, and two different records of
\* one date were kept
C2_Witness ==
    /\ pass = 1
    /\ Len(series) = 3
    /\ series # raw.metrics
    /\ \E i \in 1..2 : series[i].date = series[i + 1].date /\ series[i] # series[i + 1]

\* C3: applying the step to the payload whose metrics are the series the step
\* produced gives that series again.
C3_NormalizeIdempotent == [][(pass = 1 /\ pass' = 2) => series' = series]_vars

\* the second application ran on a series the first one had to filter and reorder
C3_Witness ==
    /\ pass = 2
    /\ Len(series) = 2
    /\ Len(raw.metrics) = 3
    /\ series # SelectSeq(raw.metrics, LAMBDA m : m \in Range(series))

----------------------------------------------------------------------------
(* Properties of the session (checked under Spec) *)

Settled == lastEvent.op = "settled"
SettledOk == Settled /\ lastEvent.response.kind = "success"
SettledFailed == Settled /\ lastEvent.response.kind # "success"

\* this step is the resolution of a fetch
SettleStep == lastEvent'.op = "settled" /\ lastEvent' # lastEvent

\* this step is a call of generateInsights
RequestStep == lastEvent'.op = "generateInsights" /\ lastEvent' # lastEvent

\* C4 as stated: whenever the session holds data, every stored record has a
\* value for at least one metric field, whatever the payload was.
C4_EveryStoredRecordHasReading ==
    data # Null => \A m \in Range(data.metrics) : Readings(m, MetricKeys) # {}

\* C4 amended: whenever the session holds data whose available_metrics is
\* present and non-empty, every stored record has a non-null value for at least
\* one key of available_metrics.
C4_StoredRecordHasReadingWhenKeysGiven ==
    (data # Null /\ HasKeys(data)) =>
        \A m \in Range(data.metrics) :
            Readings(m, Range(data.available_metrics.v)) # {}

\* data with keys holds a record
C4_Witness ==
    /\ data # Null
    /\ HasKeys(data)
    /\ data.metrics # <<>>
    /\ SettledOk
    /\ lastEvent.response.data.metrics = data.metrics

\* the payload leaves nothing to chart: no record, or keys and no record with
\* a value for any of them
NothingToChart(payload) ==
    \/ payload.metrics = <<>>
    \/ /\ HasKeys(payload)
       /\ \A m \in Range(payload.metrics) :
             Readings(m, Range(payload.available_metrics.v)) = {}

\* C5: the first load of the session, when its response is a success whose
\* metrics are empty or all filtered out, ends in the empty state: hasLoaded
\* true, no error, not loading, data with an empty series.
C5_EmptyPayloadEndsInEmptyState ==
    (issued = 1 /\ SettledOk /\ NothingToChart(lastEvent.response.data)) =>
        /\ hasLoaded
        /\ error = Null
        /\ ~loading
        /\ data # Null
        /\ data.metrics = <<>>

\* the first load came back with records that were all filtered out
C5_Witness ==
    /\ issued = 1
    /\ SettledOk
    /\ lastEvent.response.data.metrics # <<>>
    /\ NothingToChart(lastEvent.response.data)
    /\ data # Null
    /\ data.metrics = <<>>

\* C6 as stated: after a response with success = false and detail a text X,
\* the error message is exactly X, and the generic message stands only for an
\* absent detail.
C6_ErrorIsDetailForEveryText ==
    (SettledFailed /\ lastEvent.response.kind = "failure") =>
        /\ ~loading
        /\ lastEvent.response.detail.t = "string" => error = lastEvent.response.detail
        /\ error = Str("Unknown error") => lastEvent.response.detail = Undefined

\* C6 amended: after a response with success = false, the session is in the
\* error state; the message is the detail when the detail is a non-empty text,
\* and the generic "Unknown error" when the detail is absent or the empty text.
C6_ErrorIsDetailOrGeneric ==
    (SettledFailed /\ lastEvent.response.kind = "failure") =>
        /\ ~loading
        /\ error = IF /\ lastEvent.response.detail.t = "string"
                      /\ lastEvent.response.detail.v # ""
                   THEN lastEvent.response.detail
                   ELSE Str("Unknown error")

\* the endpoint reported a failure with a detail, which is now the message
C6_Witness ==
    /\ SettledFailed
    /\ lastEvent.response.kind = "failure"
    /\ lastEvent.response.detail = Str("X")
    /\ error = Str("X")

\* C7: hasLoaded is false after the first load of the session failed, and
\* true after every successful load.
C7_HasLoadedOnlyAfterSuccess ==
    /\ (issued = 1 /\ SettledFailed) => (~hasLoaded /\ error # Null)
    /\ SettledOk => hasLoaded

\* the first load failed: the session shows an error and has never loaded
C7_Witness ==
    /\ issued = 1
    /\ SettledFailed
    /\ error # Null
    /\ ~hasLoaded
    /\ ~loading

\* C8: the resolution of a failed fetch leaves data and hasLoaded as they
\* were; it sets the error message and clears the loading flag.
C8_FailureKeepsData ==
    [][(SettleStep /\ lastEvent'.response.kind # "success") =>
          /\ data' = data
          /\ hasLoaded' = hasLoaded
          /\ error' # Null
          /\ loading' = FALSE]_vars

\* a fetch failed while the session held data, and the data is still there
C8_Witness ==
    /\ SettledFailed
    /\ data # Null
    /\ data.metrics # <<>>
    /\ hasLoaded
    /\ error # Null

\* C9: a call of generateInsights with a patientId issues exactly one fetch,
\* whatever the state of the session, and leaves loading true and error null;
\* a call without a patientId issues none and changes nothing.
C9_RequestNeverSuppressed ==
    [][RequestStep =>
          IF Truthy(patientId)
          THEN /\ issued' = issued + 1
               /\ \E call \in inflight' :
                     /\ call \notin inflight
                     /\ call.patientId = patientId.v
                     /\ inflight' = inflight \cup {call}
               /\ loading'
               /\ error' = Null
               /\ UNCHANGED <<data, hasLoaded, patientId>>
          ELSE UNCHANGED <<storeVars, patientId, inflight, issued>>]_vars

\* generateInsights ran while another fetch was still in flight
C9_Witness ==
    /\ lastEvent.op = "generateInsights"
    /\ Cardinality(inflight) = 2
    /\ loading
    /\ error = Null

\* C10: after the resolution of a fetch the session is in the state its
\* response determines: ready or empty with its data after a success, error
\* with its message after a failure.
C10_LastResponseWins ==
    Settled =>
        IF lastEvent.response.kind = "success"
        THEN /\ ~loading
             /\ error = Null
             /\ hasLoaded
             /\ data # Null
             /\ data.available_metrics = lastEvent.response.data.available_metrics
        ELSE /\ ~loading
             /\ error # Null

----------------------------------------------------------------------------
(* Properties of the view, the chart and the export *)

\* this step mounts or unmounts the view
MountStep == mounted' # mounted

\* C11: mounting or unmounting the view changes none of data, loading, error
\* and hasLoaded and drops no fetch in flight; a fetch that resolves while the
\* view is unmounted applies its result to the store like any other; and
\* every change of the store is made by a call of generateInsights or by the
\* resolution of its fetch.
C11_StoreSurvivesUnmount ==
    [][/\ MountStep => UNCHANGED <<storeVars, inflight>>
       /\ (SettleStep /\ ~mounted) =>
             /\ ~loading'
             /\ IF lastEvent'.response.kind = "success"
                THEN /\ data' = storedData(lastEvent'.response.data)
                     /\ hasLoaded'
                ELSE error' # Null
       /\ storeVars' # storeVars => (RequestStep \/ SettleStep)]_vars

\* a fetch was in flight when the view went away, and its records are in the
\* store now
C11_Witness ==
    /\ ~mounted
    /\ SettledOk
    /\ ~lastEvent.mounted
    /\ hasLoaded
    /\ data = storedData(lastEvent.response.data)
    /\ data.metrics # <<>>

\* the index of the metric in the sequence of keys, counted from 0
IndexOf(ks, metric) == (CHOOSE i \in 1..Len(ks) : ks[i] = metric) - 1

\* the color the chart draws the metric in
StrokeOf(as, metric) == (CHOOSE a \in Range(as) : a.dataKey = metric).stroke

\* this step renders the same keys in another order
ReorderStep == chartKeys' # chartKeys /\ Range(chartKeys') = Range(chartKeys)

\* C12 as stated: the color of the key at index i is the palette entry
\* i mod 7, and whenever the same distinct keys are rendered in another order
\* at least one key is drawn in a color it did not have before.
C12_ReorderChangesSomeColor ==
    [][/\ \A i \in 1..Len(areas') :
             areas'[i].stroke = DYNAMIC_COLORS[((i - 1) % 7) + 1]
       /\ ReorderStep =>
             \E metric \in Range(chartKeys) :
                 StrokeOf(areas', metric) # StrokeOf(areas, metric)]_vars

\* C12 amended: the color of the key at index i is the palette entry i mod 7,
\* so the colors are a function of the sequence of keys; when the same
\* distinct keys are rendered in another order, a key changes color exactly
\* when its index changes modulo 7, and at least one key does whenever there
\* are at most 7 keys.
C12_ColorChangesWithIndexMod7 ==
    [][/\ Len(areas') = Len(chartKeys')
       /\ \A i \in 1..Len(areas') :
             /\ areas'[i].dataKey = chartKeys'[i]
             /\ areas'[i].stroke = DYNAMIC_COLORS[((i - 1) % 7) + 1]
       /\ ReorderStep =>
             /\ \A metric \in Range(chartKeys) :
                   StrokeOf(areas', metric) # StrokeOf(areas, metric)
                      <=> IndexOf(chartKeys', metric) % 7 # IndexOf(chartKeys, metric) % 7
             /\ Len(chartKeys) <= 7 =>
                   \E metric \in Range(chartKeys) :
                       StrokeOf(areas', metric) # StrokeOf(areas, metric)]_vars

\* eight keys in an order other than the first one, the eighth key drawn in
\* the first color of the palette again
C12_Witness ==
    /\ Len(chartKeys) = 8
    /\ chartKeys # MetricNames(8)
    /\ Len(areas) = 8
    /\ areas[8].stroke = areas[1].stroke
    /\ areas[8].stroke = "#ef4444"

\* the view renders the ready panel
ReadyPanel ==
    /\ mounted /\ hasLoaded /\ ~loading /\ ~Truthy(error)
    /\ Truthy(data) /\ Len(data.metrics) > 0

\* the dataKey of every series, in order
DataKeys(as) == [i \in 1..Len(as) |-> as[i].dataKey]

\* C13: in the ready state the chart of the page draws, for a non-empty
\* available_metrics, one series per key, in key order and each with
\* connectNulls; for an absent or empty available_metrics it draws exactly
\* the two fixed series of the legacy chart.
C13_FallbackDrawsTwoSeries ==
    ReadyPanel =>
        IF HasKeys(data)
        THEN /\ DataKeys(Areas(data.available_metrics)) = data.available_metrics.v
             /\ \A a \in Range(Areas(data.available_metrics)) : a.connectNulls
        ELSE DataKeys(Areas(data.available_metrics)) = DataKeys(CardAreas)

\* this step is a call of downloadPDF, or the end of one
ExportStep ==
    \/ lastEvent'.op = "downloadPDF" /\ lastEvent' # lastEvent
    \/ mounted' = mounted /\ exports' # exports

\* this step is the end of a call of downloadPDF that went past its guard
ExportEnds == mounted' = mounted /\ exports' < exports

\* C14: a call of downloadPDF, from its first statement to the end of its
\* finally block and whether the capture and the assembly succeed or throw,
\* leaves data, loading, error and hasLoaded as they were; and when the call
\* ends, after a success as after a caught failure, isDownloading is false.
C14_ExportLeavesStore ==
    [][/\ ExportStep => UNCHANGED storeVars
       /\ ExportEnds => isDownloading' = FALSE]_vars

\* the export of a loaded report failed, and the flag is down again
C14_Witness ==
    /\ lastEvent.op = "downloadPDFSettled"
    /\ ~lastEvent.ok
    /\ ~isDownloading
    /\ exports = 0
    /\ ReadyPanel

\* C15: when a fetch resolves with a success after every fetch issued later
\* than it has already resolved, the data of the session once all have
\* resolved is the result of that earlier fetch, and the result of the fetch
\* issued last is gone.
C15_StaleResultOverwrites ==
    (SettledOk /\ lastEvent.token < issued /\ inflight = {}) =>
        /\ hasLoaded
        /\ data = storedData(lastEvent.response.data)

\* two fetches were outstanding together and both succeeded (the error that
\* the second call cleared is still null), the first resolved last, and the
\* session holds the records of the first
C15_Witness ==
    /\ issued = 2
    /\ inflight = {}
    /\ SettledOk
    /\ lastEvent.token = 1
    /\ error = Null
    /\ hasLoaded
    /\ data.metrics # <<>>
    /\ data = storedData(lastEvent.response.data)

\* C16: when available_metrics is absent or empty, the stored series holds
\* every record of the raw metrics as often as the raw metrics do, the
\* records without any value included, and differs from the raw metrics only
\* in being ordered by date.
C16_FallbackKeepsEveryRecord ==
    (pass = 1 /\ ~HasKeys(raw)) =>
        /\ Len(series) = Len(raw.metrics)
        /\ \A m \in Range(raw.metrics) : Count(series, m) = Count(raw.metrics, m)
        /\ \A i, j \in 1..Len(series) :
              i < j => getTime(series[i].date) <= getTime(series[j].date)

\* no keys, a record without any value, and the records were reordered
C16_Witness ==
    /\ pass = 1
    /\ ~HasKeys(raw)
    /\ \E m \in Range(raw.metrics) : Readings(m, MetricKeys) = {}
    /\ series # raw.metrics
    /\ Len(series) = Len(raw.metrics)
    /\ \E m \in Range(series) : Readings(m, MetricKeys) = {}

\* C17: in every state of the mounted view, whatever the interleaving of
\* calls of generateInsights and resolutions of fetches, exactly one of the
\* five panels (call-to-action, loading, error, empty, ready) is rendered;
\* and in every state loading and a non-null error do not hold together.
C17_ExactlyOnePanel ==
    /\ mounted => Cardinality(Panels) = 1
    /\ ~(loading /\ error # Null)

\* a fetch failed while another is still in flight: the error panel alone
\* is rendered
C17_Witness ==
    /\ mounted
    /\ SettledFailed
    /\ inflight # {}
    /\ ~loading
    /\ Panels = {"error"}

\* C18: in every state hasLoaded is true exactly when data is not null, and
\* no step (call of generateInsights, success, failure, mount, unmount) takes
\* hasLoaded back to false or data back to null.
C18_HasLoadedIffData ==
    /\ [](hasLoaded <=> data # Null)
    /\ [][hasLoaded => (hasLoaded' /\ data' # Null)]_vars

\* after a load had succeeded the view went away and a later fetch failed:
\* the data is still held
C18_Witness ==
    /\ SettledFailed
    /\ ~lastEvent.mounted
    /\ ~mounted
    /\ issued = 2
    /\ hasLoaded
    /\ data # Null

\* C19: whenever a fetch issued by generateInsights has not resolved yet,
\* loading is true.
C19_LoadingWhileInFlight == inflight # {} => loading

\* C20: whenever the view renders the ready or the empty panel, has resolved
\* a patientId and no fetch is in flight, the data it renders came from a
\* fetch for that patientId.
C20_DataIsOfResolvedPatient ==
    (Panels \cap {"ready", "empty"} # {} /\ inflight = {} /\ Truthy(patientId)) =>
        dataFor = patientId

====
